---- MODULE Spec2Model ----
(***************************************************************************)
(* Model of homework.py: the workout classes (Training, Running,           *)
(* SportsWalking, Swimming), InfoMessage, read_package, main and the       *)
(* script loop.                                                            *)
(*                                                                         *)
(* Numbers.  Python ints and floats are modelled as exact rationals        *)
(* num/den with a sign.  TLC integers are 32 bits wide, too narrow for the *)
(* calorie formulas, so numerators and denominators are naturals of        *)
(* arbitrary size: little-endian sequences of limbs in 0..Base-1 without   *)
(* leading zero limbs.  The rounding of binary64 arithmetic is not         *)
(* modelled; the arithmetic operators are applied in the order in which    *)
(* the source applies them.                                                *)
(***************************************************************************)
EXTENDS Integers, Sequences, FiniteSets, TLC

Base == 10 ^ 4

\* ------------------------------------------------------------------------
\* Naturals of arbitrary size
\* ------------------------------------------------------------------------
RECURSIVE NatOf(_)
NatOf(k) == IF k = 0 THEN <<>> ELSE <<k % Base>> \o NatOf(k \div Base)

RECURSIVE NatStrip(_)
NatStrip(a) ==
  IF a = <<>> THEN <<>>
  ELSE IF a[Len(a)] = 0 THEN NatStrip(SubSeq(a, 1, Len(a) - 1))
  ELSE a

RECURSIVE NatAddC(_, _, _)
NatAddC(a, b, c) ==
  IF a = <<>> /\ b = <<>> THEN (IF c = 0 THEN <<>> ELSE <<c>>)
  ELSE LET x == IF a = <<>> THEN 0 ELSE Head(a)
           y == IF b = <<>> THEN 0 ELSE Head(b)
           s == x + y + c
           ta == IF a = <<>> THEN <<>> ELSE Tail(a)
           tb == IF b = <<>> THEN <<>> ELSE Tail(b)
       IN  <<s % Base>> \o NatAddC(ta, tb, s \div Base)

NatAdd(a, b) == NatAddC(a, b, 0)

\* -1, 0, 1 as a is less than, equal to, greater than b
RECURSIVE NatCmpFrom(_, _, _)
NatCmpFrom(a, b, i) ==
  IF i = 0 THEN 0
  ELSE IF a[i] < b[i] THEN -1
  ELSE IF a[i] > b[i] THEN 1
  ELSE NatCmpFrom(a, b, i - 1)

NatCmp(a, b) ==
  IF Len(a) < Len(b) THEN -1
  ELSE IF Len(a) > Len(b) THEN 1
  ELSE NatCmpFrom(a, b, Len(a))

\* a - b for a >= b
RECURSIVE NatSubB(_, _, _)
NatSubB(a, b, w) ==
  IF a = <<>> THEN <<>>
  ELSE LET y == IF b = <<>> THEN 0 ELSE Head(b)
           tb == IF b = <<>> THEN <<>> ELSE Tail(b)
           s == Head(a) - y - w
       IN  IF s < 0 THEN <<s + Base>> \o NatSubB(Tail(a), tb, 1)
           ELSE <<s>> \o NatSubB(Tail(a), tb, 0)

NatSub(a, b) == NatStrip(NatSubB(a, b, 0))

RECURSIVE NatMulLimb(_, _, _)
NatMulLimb(a, k, c) ==
  IF a = <<>> THEN (IF c = 0 THEN <<>> ELSE <<c>>)
  ELSE LET p == Head(a) * k + c
       IN  <<p % Base>> \o NatMulLimb(Tail(a), k, p \div Base)

NatShift(a) == IF a = <<>> THEN <<>> ELSE <<0>> \o a

RECURSIVE NatMul(_, _)
NatMul(a, b) ==
  IF a = <<>> \/ b = <<>> THEN <<>>
  ELSE NatAdd(NatStrip(NatMulLimb(a, Head(b), 0)), NatShift(NatMul(a, Tail(b))))

\* one step of the division: h is <<quotient, remainder>> of n by 2 * d
NatDivStep(h, d) ==
  IF NatCmp(h[2], d) >= 0
  THEN <<NatAdd(NatAdd(h[1], h[1]), <<1>>), NatSub(h[2], d)>>
  ELSE <<NatAdd(h[1], h[1]), h[2]>>

\* <<quotient, remainder>> of n by d, d > 0; each intermediate value is
\* bound as an element of a singleton set, which evaluates it once
RECURSIVE NatDivMod(_, _)
NatDivMod(n, d) ==
  IF NatCmp(n, d) < 0 THEN <<<<>>, n>>
  ELSE CHOOSE r \in { NatDivStep(h, d) :
                      h \in UNION { {NatDivMod(n, dd)} : dd \in {NatAdd(d, d)} } } : TRUE

\* ------------------------------------------------------------------------
\* Rationals: the values of Python's int and float
\* ------------------------------------------------------------------------
Rat(n, d) ==
  [neg |-> n < 0, num |-> NatOf(IF n < 0 THEN -n ELSE n), den |-> NatOf(d)]

RatIsZero(a) == a.num = <<>>

RatMul(a, b) ==
  LET n == NatMul(a.num, b.num)
  IN  [neg |-> (a.neg # b.neg) /\ n # <<>>, num |-> n,
       den |-> NatMul(a.den, b.den)]

\* a / b for b # 0
RatDiv(a, b) ==
  LET n == NatMul(a.num, b.den)
  IN  [neg |-> (a.neg # b.neg) /\ n # <<>>, num |-> n,
       den |-> NatMul(a.den, b.num)]

RatAdd(a, b) ==
  LET x == NatMul(a.num, b.den)
      y == NatMul(b.num, a.den)
      d == NatMul(a.den, b.den)
  IN  IF a.neg = b.neg THEN [neg |-> a.neg, num |-> NatAdd(x, y), den |-> d]
      ELSE IF NatCmp(x, y) = 0 THEN [neg |-> FALSE, num |-> <<>>, den |-> d]
      ELSE IF NatCmp(x, y) > 0 THEN [neg |-> a.neg, num |-> NatSub(x, y), den |-> d]
      ELSE [neg |-> b.neg, num |-> NatSub(y, x), den |-> d]

RatEq(a, b) ==
  /\ a.neg = b.neg
  /\ NatMul(a.num, b.den) = NatMul(b.num, a.den)

RatGeqZero(a) == ~a.neg

\* round-half-even to thousandths, as the presentation type .3f does:
\* the sign and the magnitude in thousandths
Round3Of(qr, a) ==
  LET c == NatCmp(NatAdd(qr[2], qr[2]), a.den)
      odd == qr[1] # <<>> /\ qr[1][1] % 2 = 1
      up == c > 0 \/ (c = 0 /\ odd)
  IN  [neg |-> a.neg, mag |-> IF up THEN NatAdd(qr[1], <<1>>) ELSE qr[1]]

Round3(a) ==
  CHOOSE r \in { Round3Of(qr, a) :
                 qr \in {NatDivMod(NatMul(a.num, NatOf(1000)), a.den)} } : TRUE

\* ------------------------------------------------------------------------
\* Python expressions: a value or a raised exception
\* ------------------------------------------------------------------------
Ok(v) == [exc |-> "none", val |-> v]
Raise(e) == [exc |-> e]

PyMul(x, y) ==
  IF x.exc # "none" THEN x
  ELSE IF y.exc # "none" THEN y
  ELSE Ok(RatMul(x.val, y.val))

PyAdd(x, y) ==
  IF x.exc # "none" THEN x
  ELSE IF y.exc # "none" THEN y
  ELSE Ok(RatAdd(x.val, y.val))

\* variant of PyDiv: a zero divisor yields zero instead of raising
PyDiv_guarded(x, y) ==
  IF x.exc # "none" THEN x
  ELSE IF y.exc # "none" THEN y
  ELSE IF RatIsZero(y.val) THEN Ok(Rat(0, 1))
  ELSE Ok(RatDiv(x.val, y.val))

PyDiv(x, y) ==
  IF x.exc # "none" THEN x
  ELSE IF y.exc # "none" THEN y
  ELSE IF RatIsZero(y.val) THEN Raise("ZeroDivisionError")
  ELSE Ok(RatDiv(x.val, y.val))

\* ------------------------------------------------------------------------
\* State
\* ------------------------------------------------------------------------
VARIABLES
  classattrs,  \* the class attributes of Training and its subclasses
  packages,    \* the list of (workout_type, data) pairs the script iterates
  idx,         \* position of the for loop in packages
  pc,          \* "loop", "main", "done", "raised" for the script; "api" for a caller of the classes
  training,    \* the workout bound to `training`
  stdout,      \* the lines printed so far
  exc,         \* the exception that left the script, "none" if none
  built,       \* caller of the classes: the arguments of its read_package call
  call,        \* caller of the classes: its last call and what the call returned
  ncalls       \* caller of the classes: number of method calls made

vars == <<classattrs, packages, idx, pc, training, stdout, exc, built, call, ncalls>>

\* ------------------------------------------------------------------------
\* Classes
\* ------------------------------------------------------------------------
ClassAttrs0 ==
  [Training |-> [LEN_STEP |-> Rat(65, 100), M_IN_KM |-> Rat(1000, 1),
                 MIN_IN_HR |-> Rat(60, 1)],
   Running |-> [CALORIES_MEAN_SPEED_MULTIPLIER |-> Rat(18, 1),
                CALORIES_MEAN_SPEED_SHIFT |-> Rat(179, 100)],
   SportsWalking |-> [CALORIES_MULTIPLIER_1 |-> Rat(35, 1000),
                      CALORIES_MULTIPLIER_2 |-> Rat(29, 1000),
                      KMH_TO_MS |-> Rat(278, 1000),
                      CM_IN_M |-> Rat(100, 1)],
   Swimming |-> [LEN_STEP |-> Rat(138, 100),
                 CALORIES_MEAN_SPEED_SHIFT |-> Rat(11, 10),
                 CALORIES_MEAN_SPEED_MULTIPLIER |-> Rat(2, 1)]]

\* variant of Attr: the base class first, so that no subclass overrides it
Attr_base_first(self, name) ==
  IF name \in DOMAIN classattrs["Training"]
  THEN Ok(classattrs["Training"][name])
  ELSE Ok(classattrs[self.cls][name])

\* self.NAME for a class attribute: the object's class first, then its base
Attr(self, name) ==
  IF name \in DOMAIN classattrs[self.cls]
  THEN Ok(classattrs[self.cls][name])
  ELSE Ok(classattrs["Training"][name])

NoTraining == [cls |-> "NoneType"]

Training_init(cls, action, duration, weight) ==
  [cls |-> cls, action |-> action, duration |-> duration, weight |-> weight]

SportsWalking_init(cls, action, duration, weight, height) ==
  [cls |-> cls, action |-> action, duration |-> duration, weight |-> weight,
   height |-> height]

Swimming_init(cls, action, duration, weight, length_pool, count_pool) ==
  [cls |-> cls, action |-> action, duration |-> duration, weight |-> weight,
   length_pool |-> length_pool, count_pool |-> count_pool]

\* cls(*data): a call with the wrong number of arguments raises TypeError
New(cls, data) ==
  CASE cls = "Running" ->
         IF Len(data) # 3 THEN Raise("TypeError")
         ELSE Ok(Training_init(cls, data[1], data[2], data[3]))
    [] cls = "SportsWalking" ->
         IF Len(data) # 4 THEN Raise("TypeError")
         ELSE Ok(SportsWalking_init(cls, data[1], data[2], data[3], data[4]))
    [] cls = "Swimming" ->
         IF Len(data) # 5 THEN Raise("TypeError")
         ELSE Ok(Swimming_init(cls, data[1], data[2], data[3], data[4], data[5]))

\* variant of Training.get_distance: action - LEN_STEP for action * LEN_STEP
Training_get_distance_minus(self) ==
  LET step == Attr(self, "LEN_STEP").val
  IN  PyDiv(PyAdd(Ok(self.action), Ok([step EXCEPT !.neg = ~step.neg])),
            Attr(self, "M_IN_KM"))

Training_get_distance(self) ==
  PyDiv(PyMul(Ok(self.action), Attr(self, "LEN_STEP")), Attr(self, "M_IN_KM"))

get_distance(self) == Training_get_distance(self)

Training_get_mean_speed(self) ==
  PyDiv(get_distance(self), Ok(self.duration))

Swimming_get_mean_speed(self) ==
  PyDiv(PyDiv(PyMul(Ok(self.length_pool), Ok(self.count_pool)),
              Attr(self, "M_IN_KM")),
        Ok(self.duration))

get_mean_speed(self) ==
  IF self.cls = "Swimming" THEN Swimming_get_mean_speed(self)
  ELSE Training_get_mean_speed(self)

\* variant of Running.get_spent_calories: the factor MIN_IN_HR is missing
Running_get_spent_calories_hours(self) ==
  LET speed == Training_get_mean_speed(self)
  IN  PyMul(PyDiv(PyMul(PyAdd(PyMul(Attr(self, "CALORIES_MEAN_SPEED_MULTIPLIER"),
                                    speed),
                              Attr(self, "CALORIES_MEAN_SPEED_SHIFT")),
                        Ok(self.weight)),
                  Attr(self, "M_IN_KM")),
            Ok(self.duration))

Running_get_spent_calories(self) ==
  LET speed == Training_get_mean_speed(self)
  IN  PyMul(PyMul(PyDiv(PyMul(PyAdd(PyMul(Attr(self, "CALORIES_MEAN_SPEED_MULTIPLIER"),
                                          speed),
                                    Attr(self, "CALORIES_MEAN_SPEED_SHIFT")),
                              Ok(self.weight)),
                        Attr(self, "M_IN_KM")),
                  Ok(self.duration)),
            Attr(self, "MIN_IN_HR"))

\* variant of SportsWalking.get_spent_calories: speed_ms for speed_ms ** 2
SportsWalking_get_spent_calories_linear(self) ==
  LET speed_ms == PyMul(Training_get_mean_speed(self), Attr(self, "KMH_TO_MS"))
      height_m == PyDiv(Ok(self.height), Attr(self, "CM_IN_M"))
  IN  IF speed_ms.exc # "none" THEN speed_ms
      ELSE IF height_m.exc # "none" THEN height_m
      ELSE PyMul(PyMul(PyAdd(PyMul(Attr(self, "CALORIES_MULTIPLIER_1"),
                                   Ok(self.weight)),
                             PyMul(PyMul(PyDiv(speed_ms, height_m),
                                         Attr(self, "CALORIES_MULTIPLIER_2")),
                                   Ok(self.weight))),
                       Ok(self.duration)),
                 Attr(self, "MIN_IN_HR"))

SportsWalking_get_spent_calories(self) ==
  LET speed_ms == PyMul(Training_get_mean_speed(self), Attr(self, "KMH_TO_MS"))
      height_m == PyDiv(Ok(self.height), Attr(self, "CM_IN_M"))
  IN  IF speed_ms.exc # "none" THEN speed_ms
      ELSE IF height_m.exc # "none" THEN height_m
      ELSE PyMul(PyMul(PyAdd(PyMul(Attr(self, "CALORIES_MULTIPLIER_1"),
                                   Ok(self.weight)),
                             PyMul(PyMul(PyDiv(PyMul(speed_ms, speed_ms), height_m),
                                         Attr(self, "CALORIES_MULTIPLIER_2")),
                                   Ok(self.weight))),
                       Ok(self.duration)),
                 Attr(self, "MIN_IN_HR"))

\* variant of Swimming.get_spent_calories: the mean speed of the base class
Swimming_get_spent_calories_super(self) ==
  LET speed == Training_get_mean_speed(self)
  IN  PyMul(PyMul(PyMul(PyAdd(speed, Attr(self, "CALORIES_MEAN_SPEED_SHIFT")),
                        Attr(self, "CALORIES_MEAN_SPEED_MULTIPLIER")),
                  Ok(self.weight)),
            Ok(self.duration))

Swimming_get_spent_calories(self) ==
  LET speed == get_mean_speed(self)
  IN  PyMul(PyMul(PyMul(PyAdd(speed, Attr(self, "CALORIES_MEAN_SPEED_SHIFT")),
                        Attr(self, "CALORIES_MEAN_SPEED_MULTIPLIER")),
                  Ok(self.weight)),
            Ok(self.duration))

get_spent_calories(self) ==
  CASE self.cls = "Running" -> Running_get_spent_calories(self)
    [] self.cls = "SportsWalking" -> SportsWalking_get_spent_calories(self)
    [] self.cls = "Swimming" -> Swimming_get_spent_calories(self)
    [] OTHER -> Raise("NotImplementedError")

InfoMessage(training_type, duration, distance, speed, calories) ==
  [training_type |-> training_type, duration |-> duration,
   distance |-> distance, speed |-> speed, calories |-> calories]

\* variant of show_training_info: speed and distance passed in the other order
show_training_info_swapped(self) ==
  LET dist == get_distance(self)
      speed == get_mean_speed(self)
      calories == get_spent_calories(self)
  IN  IF dist.exc # "none" THEN dist
      ELSE IF speed.exc # "none" THEN speed
      ELSE IF calories.exc # "none" THEN calories
      ELSE Ok(InfoMessage(self.cls, self.duration, speed.val, dist.val,
                          calories.val))

show_training_info(self) ==
  LET dist == get_distance(self)
      speed == get_mean_speed(self)
      calories == get_spent_calories(self)
  IN  IF dist.exc # "none" THEN dist
      ELSE IF speed.exc # "none" THEN speed
      ELSE IF calories.exc # "none" THEN calories
      ELSE Ok(InfoMessage(self.cls, self.duration, dist.val, speed.val,
                          calories.val))

\* the text of the line: the workout's type name and the four numbers with
\* three decimals
get_message(info) ==
  [training_type |-> info.training_type,
   duration |-> Round3(info.duration),
   distance |-> Round3(info.distance),
   speed |-> Round3(info.speed),
   calories |-> Round3(info.calories)]

\* variant of training_types: WLK and SWM exchanged
training_types_swapped ==
  [RUN |-> "Running", WLK |-> "Swimming", SWM |-> "SportsWalking"]

training_types ==
  [RUN |-> "Running", WLK |-> "SportsWalking", SWM |-> "Swimming"]

read_package(workout_type, data) ==
  IF workout_type \notin DOMAIN training_types THEN Raise("KeyError")
  ELSE New(training_types[workout_type], data)

\* main(training) run with `out` already printed: what is printed after it,
\* or the exception that leaves it
main(t, out) ==
  LET info == show_training_info(t)
  IN  IF info.exc # "none" THEN info
      ELSE Ok(Append(out, get_message(info.val)))

\* ------------------------------------------------------------------------
\* Inputs
\* ------------------------------------------------------------------------
MaxPackages == 2
MaxCalls == 2

Codes == {"RUN", "WLK", "SWM", "XYZ"}

\* the list of the script, two more workouts, and pairs the script cannot
\* process: an unknown code, a zero duration, a data list of the wrong length
SamplePackages ==
  { <<"SWM", <<Rat(720, 1), Rat(1, 1), Rat(80, 1), Rat(25, 1), Rat(40, 1)>>>>,
    <<"RUN", <<Rat(15000, 1), Rat(1, 1), Rat(75, 1)>>>>,
    <<"WLK", <<Rat(9000, 1), Rat(1, 1), Rat(75, 1), Rat(180, 1)>>>>,
    <<"RUN", <<Rat(420, 1), Rat(4, 1), Rat(20, 1)>>>>,
    <<"XYZ", <<Rat(720, 1), Rat(1, 1), Rat(80, 1)>>>>,
    <<"XYZ", <<>>>>,
    <<"WLK", <<Rat(9000, 1), Rat(0, 1), Rat(75, 1), Rat(180, 1)>>>>,
    <<"SWM", <<Rat(720, 1), Rat(1, 1), Rat(80, 1)>>>> }

PackageLists ==
  UNION { [1..n -> SamplePackages] : n \in 0..MaxPackages }

ActionValues == {Rat(-720, 1), Rat(0, 1), Rat(720, 1), Rat(9000, 1), Rat(15000, 1)}
DurationValues == {Rat(-1, 1), Rat(0, 1), Rat(1, 2), Rat(1, 1), Rat(3, 1)}
WeightValues == {Rat(75, 1), Rat(80, 1)}
FourthValues == {Rat(0, 1), Rat(25, 1), Rat(180, 1)}
FifthValues == {Rat(0, 1), Rat(40, 1)}

DataLists ==
  { <<>> }
  \cup { <<a, d>> : a \in ActionValues, d \in DurationValues }
  \cup { <<a, d, w>> : a \in ActionValues, d \in DurationValues, w \in WeightValues }
  \cup { <<a, d, w, h>> : a \in ActionValues, d \in DurationValues,
                          w \in WeightValues, h \in FourthValues }
  \cup { <<a, d, w, l, c>> : a \in ActionValues, d \in DurationValues,
                             w \in WeightValues, l \in FourthValues,
                             c \in FifthValues }

NoCall == [op |-> "none"]
NoArgs == <<>>

\* ------------------------------------------------------------------------
\* The script
\* ------------------------------------------------------------------------
Init ==
  /\ classattrs = ClassAttrs0
  /\ packages \in PackageLists
  /\ idx = 1
  /\ pc = "loop"
  /\ training = NoTraining
  /\ stdout = <<>>
  /\ exc = "none"
  /\ built = NoArgs
  /\ call = NoCall
  /\ ncalls = 0

\* variant of ReadPackageStep: an exception of read_package is swallowed and
\* the loop goes on with the next pair
ReadPackageStep_swallow ==
  /\ pc = "loop"
  /\ idx <= Len(packages)
  /\ \E r \in {read_package(packages[idx][1], packages[idx][2])} :
         IF r.exc # "none"
         THEN /\ idx' = idx + 1
              /\ UNCHANGED <<training, pc>>
         ELSE /\ training' = r.val
              /\ pc' = "main"
              /\ UNCHANGED idx
  /\ UNCHANGED <<classattrs, packages, stdout, exc, built, call, ncalls>>

\* training = read_package(workout_type, data) for the next pair of the list
ReadPackageStep ==
  /\ pc = "loop"
  /\ idx <= Len(packages)
  /\ \E r \in {read_package(packages[idx][1], packages[idx][2])} :
         IF r.exc # "none"
         THEN /\ exc' = r.exc
              /\ pc' = "raised"
              /\ UNCHANGED training
         ELSE /\ training' = r.val
              /\ pc' = "main"
              /\ UNCHANGED exc
  /\ UNCHANGED <<classattrs, packages, idx, stdout, built, call, ncalls>>

\* main(training)
MainStep ==
  /\ pc = "main"
  /\ \E r \in {main(training, stdout)} :
         IF r.exc # "none"
         THEN /\ exc' = r.exc
              /\ pc' = "raised"
              /\ UNCHANGED <<stdout, idx>>
         ELSE /\ stdout' = r.val
              /\ idx' = idx + 1
              /\ pc' = "loop"
              /\ UNCHANGED exc
  /\ UNCHANGED <<classattrs, packages, training, built, call, ncalls>>

\* the list is exhausted
LoopEnd ==
  /\ pc = "loop"
  /\ idx > Len(packages)
  /\ pc' = "done"
  /\ UNCHANGED <<classattrs, packages, idx, training, stdout, exc, built, call, ncalls>>

Next == ReadPackageStep \/ MainStep \/ LoopEnd

Spec == Init /\ [][Next]_vars

\* ------------------------------------------------------------------------
\* A caller of the classes: one read_package, then method calls on the
\* workout it returned
\* ------------------------------------------------------------------------
InitApi ==
  /\ classattrs = ClassAttrs0
  /\ packages = <<>>
  /\ idx = 1
  /\ pc = "api"
  /\ training = NoTraining
  /\ stdout = <<>>
  /\ exc = "none"
  /\ built = NoArgs
  /\ call = NoCall
  /\ ncalls = 0

ApiReadPackage ==
  /\ pc = "api"
  /\ call = NoCall
  /\ \E workout_type \in Codes, data \in DataLists :
       LET r == read_package(workout_type, data)
       IN  /\ built' = <<workout_type, data>>
           /\ call' = [op |-> "read_package", result |-> r]
           /\ training' = IF r.exc = "none" THEN r.val ELSE training
  /\ UNCHANGED <<classattrs, packages, idx, pc, stdout, exc, ncalls>>

CanCall ==
  /\ pc = "api"
  /\ training # NoTraining
  /\ ncalls < MaxCalls

ApiGetDistance ==
  /\ CanCall
  /\ call' = [op |-> "get_distance", result |-> get_distance(training)]
  /\ ncalls' = ncalls + 1
  /\ UNCHANGED <<classattrs, packages, idx, pc, training, stdout, exc, built>>

ApiGetMeanSpeed ==
  /\ CanCall
  /\ call' = [op |-> "get_mean_speed", result |-> get_mean_speed(training)]
  /\ ncalls' = ncalls + 1
  /\ UNCHANGED <<classattrs, packages, idx, pc, training, stdout, exc, built>>

ApiGetSpentCalories ==
  /\ CanCall
  /\ call' = [op |-> "get_spent_calories", result |-> get_spent_calories(training)]
  /\ ncalls' = ncalls + 1
  /\ UNCHANGED <<classattrs, packages, idx, pc, training, stdout, exc, built>>

\* variant of ApiShowTrainingInfo: show_training_info stores the duration in
\* minutes in the workout
ApiShowTrainingInfo_mutating ==
  /\ CanCall
  /\ call' = [op |-> "show_training_info", result |-> show_training_info(training)]
  /\ ncalls' = ncalls + 1
  /\ training' = [training EXCEPT !.duration = RatMul(@, Rat(60, 1))]
  /\ UNCHANGED <<classattrs, packages, idx, pc, stdout, exc, built>>

ApiShowTrainingInfo ==
  /\ CanCall
  /\ call' = [op |-> "show_training_info", result |-> show_training_info(training)]
  /\ ncalls' = ncalls + 1
  /\ UNCHANGED <<classattrs, packages, idx, pc, training, stdout, exc, built>>

NextApi ==
  \/ ApiReadPackage
  \/ ApiGetDistance
  \/ ApiGetMeanSpeed
  \/ ApiGetSpentCalories
  \/ ApiShowTrainingInfo

SpecApi == InitApi /\ [][NextApi]_vars

\* ------------------------------------------------------------------------
\* Properties
\* ------------------------------------------------------------------------
RatPos(a) == ~a.neg /\ a.num # <<>>

KnownCodes == {"RUN", "WLK", "SWM"}
Methods == {"get_distance", "get_mean_speed", "get_spent_calories", "show_training_info"}

\* C1: read_package raises KeyError for every code other than RUN, WLK, SWM,
\* whatever the data list is, and for RUN with 3 parameters, WLK with 4 and
\* SWM with 5 it returns a Running, SportsWalking or Swimming workout whose
\* fields are the parameters in the given order.
C1_ReadPackageTotal ==
  call.op = "read_package" =>
    LET code == built[1]
        data == built[2]
        r == call.result
    IN  /\ code \notin KnownCodes => r.exc = "KeyError" /\ training = NoTraining
        /\ (code = "RUN" /\ Len(data) = 3) =>
             /\ r.exc = "none"
             /\ r.val = [cls |-> "Running", action |-> data[1],
                         duration |-> data[2], weight |-> data[3]]
             /\ training = r.val
        /\ (code = "WLK" /\ Len(data) = 4) =>
             /\ r.exc = "none"
             /\ r.val = [cls |-> "SportsWalking", action |-> data[1],
                         duration |-> data[2], weight |-> data[3],
                         height |-> data[4]]
             /\ training = r.val
        /\ (code = "SWM" /\ Len(data) = 5) =>
             /\ r.exc = "none"
             /\ r.val = [cls |-> "Swimming", action |-> data[1],
                         duration |-> data[2], weight |-> data[3],
                         length_pool |-> data[4], count_pool |-> data[5]]
             /\ training = r.val

C1_Witness ==
  /\ call.op = "read_package"
  /\ built[1] = "WLK"
  /\ Len(built[2]) = 4
  /\ training.cls = "SportsWalking"
  /\ training.height = Rat(180, 1)

\* the pairs of the list the script can process: a known code, a data list
\* of the constructor's length, no zero divisor
WellFormed(p) ==
  /\ p[1] \in KnownCodes
  /\ Len(p[2]) = (CASE p[1] = "RUN" -> 3 [] p[1] = "WLK" -> 4 [] p[1] = "SWM" -> 5)
  /\ ~RatIsZero(p[2][2])
  /\ p[1] = "WLK" => ~RatIsZero(p[2][4])

\* position of the first pair with an unknown code, Len(packages) + 1 if none
FirstUnknown ==
  LET unknown == { i \in 1..Len(packages) : packages[i][1] \notin KnownCodes }
  IN  IF unknown = {} THEN Len(packages) + 1
      ELSE CHOOSE i \in unknown : \A j \in unknown : i <= j

ClassNameOf(code) ==
  CASE code = "RUN" -> "Running"
    [] code = "WLK" -> "SportsWalking"
    [] code = "SWM" -> "Swimming"

\* C2: when the pairs before the first unknown code are well formed, the
\* script prints one line per pair, in the order of the list, for exactly
\* the pairs before the first unknown code; at that pair KeyError leaves the
\* script and no line is printed for it; without an unknown code the script
\* ends with one line per pair.
C2_OneLinePerPackageUntilUnknown ==
  (\A i \in 1..(FirstUnknown - 1) : WellFormed(packages[i])) =>
    /\ Len(stdout) = idx - 1
    /\ idx <= FirstUnknown
    /\ \A k \in 1..Len(stdout) :
         /\ stdout[k].training_type = ClassNameOf(packages[k][1])
         /\ stdout[k].duration = Round3(packages[k][2][2])
    /\ pc = "done" => FirstUnknown = Len(packages) + 1 /\ idx = Len(packages) + 1
    /\ pc = "raised" => exc = "KeyError" /\ idx = FirstUnknown
    /\ (pc \in {"loop", "main"}) => exc = "none"

C2_Witness ==
  /\ pc = "raised"
  /\ exc = "KeyError"
  /\ Len(packages) = 2
  /\ idx = 2
  /\ Len(stdout) = 1
  /\ stdout[1].training_type = "Swimming"

\* the calorie formulas, with their constants as the claim states them
RunningCalories(speed, weight, duration) ==
  RatMul(RatMul(RatDiv(RatMul(RatAdd(RatMul(Rat(18, 1), speed), Rat(179, 100)),
                              weight),
                       Rat(1000, 1)),
                duration),
         Rat(60, 1))

WalkingCalories(speed, weight, duration, height) ==
  LET speed_ms == RatMul(speed, Rat(278, 1000))
      height_m == RatDiv(height, Rat(100, 1))
  IN  RatMul(RatMul(RatAdd(RatMul(Rat(35, 1000), weight),
                           RatMul(RatMul(RatDiv(RatMul(speed_ms, speed_ms), height_m),
                                         Rat(29, 1000)),
                                  weight)),
                    duration),
             Rat(60, 1))

SwimmingCalories(speed, weight, duration) ==
  RatMul(RatMul(RatMul(RatAdd(speed, Rat(11, 10)), Rat(2, 1)), weight), duration)

PoolSpeed(t) ==
  RatDiv(RatDiv(RatMul(t.length_pool, t.count_pool), Rat(1000, 1)), t.duration)

StepDistance(t) ==
  RatDiv(RatMul(t.action, IF t.cls = "Swimming" THEN Rat(138, 100) ELSE Rat(65, 100)),
         Rat(1000, 1))

\* C3: for a workout with positive duration and weight (and height, for
\* walking) the calories of the record of show_training_info are the formula
\* of the workout's own class applied to the mean speed of that class:
\* distance / duration for Running and SportsWalking, the pool speed for
\* Swimming.
C3_CaloriesByVariant ==
  (/\ call.op = "show_training_info"
   /\ RatPos(training.duration)
   /\ RatPos(training.weight)
   /\ training.cls = "SportsWalking" => RatPos(training.height)) =>
    /\ call.result.exc = "none"
    /\ LET info == call.result.val
           walk == RatDiv(StepDistance(training), training.duration)
       IN  CASE training.cls = "Running" ->
                  RatEq(info.calories,
                        RunningCalories(walk, training.weight, training.duration))
             [] training.cls = "SportsWalking" ->
                  RatEq(info.calories,
                        WalkingCalories(walk, training.weight, training.duration,
                                        training.height))
             [] training.cls = "Swimming" ->
                  RatEq(info.calories,
                        SwimmingCalories(PoolSpeed(training), training.weight,
                                         training.duration))

C3_Witness ==
  /\ call.op = "show_training_info"
  /\ training.cls = "Swimming"
  /\ RatPos(training.duration)
  /\ RatPos(training.weight)
  /\ call.result.exc = "none"
  /\ ~RatEq(PoolSpeed(training), RatDiv(StepDistance(training), training.duration))

\* C4: for a workout with positive duration get_distance is
\* action * step / 1000 with step 0.65 (Running, SportsWalking) or 1.38
\* (Swimming); get_mean_speed, and the speed of the record, is
\* get_distance / duration for Running and SportsWalking and
\* length_pool * count_pool / 1000 / duration for Swimming.
C4_DistanceAndSpeed ==
  (call.op \in Methods /\ RatPos(training.duration)) =>
    LET speed == IF training.cls = "Swimming" THEN PoolSpeed(training)
                 ELSE RatDiv(StepDistance(training), training.duration)
    IN  /\ call.op = "get_distance" =>
             /\ call.result.exc = "none"
             /\ RatEq(call.result.val, StepDistance(training))
        /\ call.op = "get_mean_speed" =>
             /\ call.result.exc = "none"
             /\ RatEq(call.result.val, speed)
        /\ (call.op = "show_training_info" /\ call.result.exc = "none") =>
             /\ RatEq(call.result.val.distance, StepDistance(training))
             /\ RatEq(call.result.val.speed, speed)

C4_Witness ==
  /\ call.op = "get_distance"
  /\ training.cls = "Swimming"
  /\ RatPos(training.duration)
  /\ RatPos(training.action)
  /\ call.result.exc = "none"

Thousandths(n) == [neg |-> FALSE, mag |-> NatOf(n)]

RunScenario == <<"RUN", <<Rat(15000, 1), Rat(1, 1), Rat(75, 1)>>>>
WlkScenario == <<"WLK", <<Rat(9000, 1), Rat(1, 1), Rat(75, 1), Rat(180, 1)>>>>

\* C5 as stated: RUN with [15000, 1, 75] gives distance 9.75, mean speed 9.75
\* and calories 798.975 to three decimals.
C5_AsStated ==
  (call.op = "show_training_info" /\ built = RunScenario) =>
    /\ call.result.exc = "none"
    /\ RatEq(call.result.val.distance, Rat(975, 100))
    /\ RatEq(call.result.val.speed, Rat(975, 100))
    /\ Round3(call.result.val.calories) = Thousandths(798975)

\* C5 as amended: RUN with [15000, 1, 75] gives distance 9.75, mean speed 9.75
\* and calories 797.805, which is what (18 * 9.75 + 1.79) * 75 / 1000 * 1 * 60
\* evaluates to.
C5_RunScenario ==
  (call.op = "show_training_info" /\ built = RunScenario) =>
    /\ call.result.exc = "none"
    /\ call.result.val.training_type = "Running"
    /\ RatEq(call.result.val.distance, Rat(975, 100))
    /\ RatEq(call.result.val.speed, Rat(975, 100))
    /\ RatEq(call.result.val.calories, Rat(797805, 1000))
    /\ Round3(call.result.val.calories) = Thousandths(797805)

C5_Witness ==
  /\ call.op = "show_training_info"
  /\ built = RunScenario
  /\ call.result.exc = "none"

\* C6 as stated: WLK with [9000, 1, 75, 180] gives distance 5.85, mean speed
\* 5.85 and calories 309.900 to three decimals.
C6_AsStated ==
  (call.op = "show_training_info" /\ built = WlkScenario) =>
    /\ call.result.exc = "none"
    /\ RatEq(call.result.val.distance, Rat(585, 100))
    /\ RatEq(call.result.val.speed, Rat(585, 100))
    /\ Round3(call.result.val.calories) = Thousandths(309900)

\* C6 as amended: WLK with [9000, 1, 75, 180] gives distance 5.85, mean speed
\* 5.85 (1.6263 m/s, height 1.8 m) and calories 349.252 to three decimals.
C6_WlkScenario ==
  (call.op = "show_training_info" /\ built = WlkScenario) =>
    /\ call.result.exc = "none"
    /\ call.result.val.training_type = "SportsWalking"
    /\ RatEq(call.result.val.distance, Rat(585, 100))
    /\ RatEq(call.result.val.speed, Rat(585, 100))
    /\ RatEq(RatMul(call.result.val.speed, Rat(278, 1000)), Rat(16263, 10000))
    /\ Round3(call.result.val.calories) = Thousandths(349252)

C6_Witness ==
  /\ call.op = "show_training_info"
  /\ built = WlkScenario
  /\ call.result.exc = "none"
  /\ training.height = Rat(180, 1)

\* action >= 0, duration > 0, weight > 0, and for Swimming length_pool > 0
\* and count_pool > 0
ValidInputs(t) ==
  /\ ~t.action.neg
  /\ RatPos(t.duration)
  /\ RatPos(t.weight)
  /\ t.cls = "Swimming" => RatPos(t.length_pool) /\ RatPos(t.count_pool)

RightArity(code, data) ==
  \/ code = "RUN" /\ Len(data) = 3
  \/ code = "WLK" /\ Len(data) = 4
  \/ code = "SWM" /\ Len(data) = 5

\* C7: for valid inputs get_distance and get_mean_speed return values >= 0;
\* the constructors check none of the preconditions: read_package with a known
\* code and a data list of the right length succeeds whatever the values are.
C7_NonNegative ==
  /\ (call.op \in {"get_distance", "get_mean_speed"} /\ ValidInputs(training)) =>
       /\ call.result.exc = "none"
       /\ RatGeqZero(call.result.val)
  /\ (call.op = "read_package" /\ RightArity(built[1], built[2])) =>
       call.result.exc = "none"

C7_Witness ==
  /\ call.op = "get_mean_speed"
  /\ ValidInputs(training)
  /\ training.cls = "Running"
  /\ RatPos(training.action)
  /\ RatPos(call.result.val)

\* what the method named op returns on the workout t
MethodResult(op, t) ==
  CASE op = "get_distance" -> get_distance(t)
    [] op = "get_mean_speed" -> get_mean_speed(t)
    [] op = "get_spent_calories" -> get_spent_calories(t)
    [] op = "show_training_info" -> show_training_info(t)

\* C8: a call of get_distance, get_mean_speed, get_spent_calories or
\* show_training_info changes no field of the workout and no class attribute;
\* a call that repeats the previous call returns what that call returned; and
\* after any sequence of calls a method returns on the workout what it
\* returns on a workout newly built from the same inputs.
C8_MethodsArePure ==
  /\ [](call.op \in Methods =>
          call.result = MethodResult(call.op, read_package(built[1], built[2]).val))
  /\ [][ (ncalls' # ncalls) =>
          /\ training' = training
          /\ classattrs' = classattrs
          /\ (call.op = call'.op => call'.result = call.result) ]_vars

C8_Witness ==
  /\ ncalls >= 2
  /\ call.op = "show_training_info"
  /\ call.result.exc = "none"
  /\ classattrs = ClassAttrs0

\* C9: with duration zero the construction succeeds and get_spent_calories
\* and show_training_info raise ZeroDivisionError; with a duration other than
\* zero no method raises ZeroDivisionError, except on a SportsWalking workout
\* of height zero, where the divisor is the height.
C9_ZeroDuration ==
  /\ (call.op = "read_package" /\ RightArity(built[1], built[2])
        /\ RatIsZero(built[2][2])) =>
       call.result.exc = "none" /\ training = call.result.val
  /\ (call.op \in {"get_spent_calories", "show_training_info"}
        /\ RatIsZero(training.duration)) =>
       call.result.exc = "ZeroDivisionError"
  /\ (call.op \in Methods /\ ~RatIsZero(training.duration)
        /\ call.result.exc # "none") =>
       /\ call.result.exc = "ZeroDivisionError"
       /\ training.cls = "SportsWalking"
       /\ RatIsZero(training.height)
       /\ call.op \in {"get_spent_calories", "show_training_info"}

C9_Witness ==
  /\ call.op = "show_training_info"
  /\ training.cls = "Swimming"
  /\ RatIsZero(training.duration)
  /\ call.result.exc = "ZeroDivisionError"

\* C10 as stated: in the record of show_training_info for a workout of any
\* class with positive duration, speed = distance / duration.
C10_AsStated ==
  (/\ call.op = "show_training_info"
   /\ RatPos(training.duration)
   /\ call.result.exc = "none") =>
    RatEq(call.result.val.speed,
          RatDiv(call.result.val.distance, call.result.val.duration))

\* C10 as amended: in the record of show_training_info for a workout with
\* positive duration, speed = distance / duration for Running and
\* SportsWalking; for Swimming speed = length_pool * count_pool / 1000 /
\* duration, which is distance / duration only when
\* length_pool * count_pool = action * 1.38.
C10_SpeedField ==
  (/\ call.op = "show_training_info"
   /\ RatPos(training.duration)
   /\ call.result.exc = "none") =>
    LET info == call.result.val
        ratio == RatDiv(info.distance, info.duration)
    IN  /\ info.duration = training.duration
        /\ training.cls # "Swimming" => RatEq(info.speed, ratio)
        /\ training.cls = "Swimming" =>
             /\ RatEq(info.speed, PoolSpeed(training))
             /\ RatEq(info.speed, ratio) <=>
                  RatEq(RatMul(training.length_pool, training.count_pool),
                        RatMul(training.action, Rat(138, 100)))

C10_Witness ==
  /\ call.op = "show_training_info"
  /\ training.cls = "Swimming"
  /\ RatPos(training.duration)
  /\ call.result.exc = "none"
  /\ RatEq(call.result.val.speed, Rat(1, 1))
  /\ RatEq(call.result.val.distance, Rat(9936, 10000))

====
